---- MODULE Spec2Model ----
(***************************************************************************)
(* Write path of the datastore service.                                    *)
(*                                                                         *)
(*  - PgConnectionHandlerService (pg_connection_handler.py): the pooled,   *)
(*    thread-affine connections, get_connection / put_connection with the  *)
(*    sync_lock and the sync_event gate.  Specification SpecPool.          *)
(*  - EventTranslatorService (event_translator.py): translate as an        *)
(*    operator.                                                            *)
(*  - WriterService with its sequencer and its Database, ReadDatabase,     *)
(*    OccLocker and Messaging ports, one WriteRequest per write call as in *)
(*    test_writer_service.py.  Specification SpecWriter.                   *)
(***************************************************************************)
EXTENDS Naturals, Integers, Sequences, FiniteSets, TLC

\* ------------------------------------------------------------- bounds
\* worker threads using the connection handler
NumThreads == 2
\* DATASTORE_MAX_CONNECTIONS of the modelled deployment
MaxConn == 1
\* connections the pool may open in one run (identities are never reused)
MaxConnIds == 3
\* DATASTORE_MIN_CONNECTIONS (default)
MinConn == 1

\* threads calling WriterService.write
NumWriters == 3
\* write requests submitted in one run
MaxWrites == 3

Threads == 1..NumThreads
Writers == 1..NumWriters
Conns == 1..MaxConnIds
NoConn == 0
NoThread == 0

\* ------------------------------------------------------ event translator
\* META_DELETED: the reserved deletion marker of a model
META_DELETED == "meta_deleted"
\* None as the value of a field of an update: delete the field
Null == "null"
EmptyDict == <<>>

\* dict.get(key, default)
DictGet(d, key, default) == IF key \in DOMAIN d THEN d[key] ELSE default

\* assert_model_does_not_exist: the error it raises, or "none"
AssertModelDoesNotExistLax(fqid, models) == "none"

assert_model_does_not_exist(fqid, models) ==
    IF fqid \in DOMAIN models THEN "ModelExists" ELSE "none"

\* assert_model_exists: the error it raises, or "none"
assert_model_exists(fqid, models) ==
    IF fqid \notin DOMAIN models \/ models[fqid][META_DELETED] = TRUE
    THEN "ModelDoesNotExist" ELSE "none"

\* assert_model_is_deleted: the error it raises, or "none"
AssertModelIsDeletedAbsentOnly(fqid, models) ==
    IF fqid \notin DOMAIN models THEN "ModelNotDeleted" ELSE "none"

assert_model_is_deleted(fqid, models) ==
    IF fqid \notin DOMAIN models \/ models[fqid][META_DELETED] = FALSE
    THEN "ModelNotDeleted" ELSE "none"

DbCreateEvent(fqid, fields) ==
    [type |-> "create", fqid |-> fqid, fields |-> fields]
DbUpdateEvent(fqid, fields) ==
    [type |-> "update", fqid |-> fqid, fields |-> fields]
DbDeleteFieldsEvent(fqid, names) ==
    [type |-> "deletefields", fqid |-> fqid, fields |-> names]
DbListUpdateEvent(fqid, add, remove, model) ==
    [type |-> "listupdate", fqid |-> fqid, add |-> add, remove |-> remove,
     model |-> model]
DbDeleteEvent(fqid, names) ==
    [type |-> "delete", fqid |-> fqid, fields |-> names]
DbRestoreEvent(fqid, names) ==
    [type |-> "restore", fqid |-> fqid, fields |-> names]

\* create_update_events: the db events of an update, in the order they are
\* appended (field-name lists are kept as sets)
CreateUpdateEventsKeepsNull(ev, models) ==
    LET add == DictGet(ev.list_fields, "add", EmptyDict)
        remove == DictGet(ev.list_fields, "remove", EmptyDict)
    IN  (IF DOMAIN ev.fields # {}
         THEN <<DbUpdateEvent(ev.fqid, ev.fields)>> ELSE <<>>)
        \o (IF DOMAIN add # {} \/ DOMAIN remove # {}
            THEN <<DbListUpdateEvent(ev.fqid, add, remove, models[ev.fqid])>>
            ELSE <<>>)

create_update_events(ev, models) ==
    LET updated_fields ==
            [f \in {g \in DOMAIN ev.fields : ev.fields[g] # Null} |-> ev.fields[f]]
        deleted_fields == {g \in DOMAIN ev.fields : ev.fields[g] = Null}
        add == DictGet(ev.list_fields, "add", EmptyDict)
        remove == DictGet(ev.list_fields, "remove", EmptyDict)
    IN  (IF DOMAIN updated_fields # {}
         THEN <<DbUpdateEvent(ev.fqid, updated_fields)>> ELSE <<>>)
        \o (IF deleted_fields # {}
            THEN <<DbDeleteFieldsEvent(ev.fqid, deleted_fields)>> ELSE <<>>)
        \o (IF DOMAIN add # {} \/ DOMAIN remove # {}
            THEN <<DbListUpdateEvent(ev.fqid, add, remove, models[ev.fqid])>>
            ELSE <<>>)

Raised(e) == [error |-> e, events |-> <<>>]
Translated(evs) == [error |-> "none", events |-> evs]

\* translate(request_event, models): the error raised, or the db events
translate(ev, models) ==
    IF ev.type = "create" THEN
        IF assert_model_does_not_exist(ev.fqid, models) # "none"
        THEN Raised(assert_model_does_not_exist(ev.fqid, models))
        ELSE Translated(<<DbCreateEvent(ev.fqid, ev.fields)>>)
    ELSE IF ev.type = "update" THEN
        IF assert_model_exists(ev.fqid, models) # "none"
        THEN Raised(assert_model_exists(ev.fqid, models))
        ELSE Translated(create_update_events(ev, models))
    ELSE IF ev.type = "delete" THEN
        IF assert_model_exists(ev.fqid, models) # "none"
        THEN Raised(assert_model_exists(ev.fqid, models))
        ELSE Translated(<<DbDeleteEvent(ev.fqid, DOMAIN models[ev.fqid])>>)
    ELSE IF ev.type = "restore" THEN
        IF assert_model_is_deleted(ev.fqid, models) # "none"
        THEN Raised(assert_model_is_deleted(ev.fqid, models))
        ELSE Translated(<<DbRestoreEvent(ev.fqid, DOMAIN models[ev.fqid])>>)
    ELSE Raised("BadCodingError")

RequestCreateEvent(fqid, fields) ==
    [type |-> "create", fqid |-> fqid, fields |-> fields,
     list_fields |-> EmptyDict]
RequestUpdateEvent(fqid, fields, list_fields) ==
    [type |-> "update", fqid |-> fqid, fields |-> fields,
     list_fields |-> list_fields]
RequestDeleteEvent(fqid) ==
    [type |-> "delete", fqid |-> fqid, fields |-> EmptyDict,
     list_fields |-> EmptyDict]
RequestRestoreEvent(fqid) ==
    [type |-> "restore", fqid |-> fqid, fields |-> EmptyDict,
     list_fields |-> EmptyDict]

VARIABLES
    \* ---- connection handler
    pc,            \* pc[t]: where thread t stands in get_connection / put_connection
    sync_lock,     \* holder of PgConnectionHandlerService.sync_lock, or NoThread
    sync_event,    \* PgConnectionHandlerService.sync_event is set
    current,       \* current[t]: _storage.connection of thread t, or NoConn
    closedConns,   \* connections whose .closed is true
    pool,          \* ThreadedConnectionPool._pool: the idle connections
    used,          \* ThreadedConnectionPool._used: the checked-out connections
    takenBy,       \* takenBy[c]: the thread whose getconn() returned c (while checked out)
    nconns,        \* connections opened so far
    arg,           \* arg[t]: arguments of the running put_connection call
    given,         \* given[t]: the connection get_connection last returned to t
    discarded,     \* connections given back with has_error=True
    \* ---- writer
    wpc,           \* wpc[w]: where writer w stands in write
    breq,          \* breq[w]: the WriteRequest w is writing (0: none)
    queue,         \* the sequencer's FIFO ticket queue
    serial,        \* serial[w]: arrival number of the ticket of w (0: none)
    nArrived,      \* tickets issued so far
    txn,           \* txn[w]: the transaction of w's database context
    calls,         \* calls[w]: the port calls made for the current request
    idx,           \* idx[w]: the migration index w read (NoIndex: none)
    dbev,          \* dbev[w]: the translated db events of the request
    pending,       \* pending[w]: rows inserted in w's open transaction
    werr,          \* werr[w]: the error that ends the call ("none": none)
    models,        \* committed models by fqid
    position,      \* committed position / migration index
    log,           \* committed batches, in commit order
    last,          \* the call that released its ticket last, as it ended
    \* ---- translator inputs and result
    tev,           \* the request event given to translate
    tmodels,       \* the models snapshot given to translate
    tres,          \* what translate raised or returned (error "notrun": not called)
    \* ---- retry_on_db_failure around a function with one ConnectionContext
    cpc,           \* cpc[t]: where thread t stands in the wrapper and the context
    exc,           \* exc[t]: the exception that left the body of the with block
    err,           \* err[t]: the exception that leaves the wrapped function
    txn_end,       \* txn_end[t]: what connection.__exit__ did to the transaction
    put_end,       \* put_end[t]: what putconn did with the connection
    tries,         \* tries[t]: the wrapper's counter of retryable failures
    attempts,      \* attempts[t]: invocations of the wrapped function in this call
    sleeps         \* sleeps[t]: sleep(RETRY_TIMEOUT / 1000) calls in this call

writerVars == <<wpc, breq, queue, serial, nArrived, txn, calls, idx, dbev,
                pending, werr, models, position, log, last>>

poolVars == <<pc, sync_lock, sync_event, current, closedConns, pool, used,
              takenBy, nconns, arg, given, discarded>>

trVars == <<tev, tmodels, tres>>

ctxVars == <<cpc, exc, err, txn_end, put_end, tries, attempts, sleeps>>

nonPoolVars == <<writerVars, trVars, ctxVars>>
nonWriterVars == <<poolVars, trVars, ctxVars>>
nonCtxVars == <<writerVars, trVars>>

NoArg == [conn |-> NoConn, has_error |-> FALSE]

RECURSIVE SeqToSet(_)
SeqToSet(s) == IF s = <<>> THEN {} ELSE {Head(s)} \cup SeqToSet(Tail(s))

\* PgConnectionHandlerService.__init__: the lock is free, the gate is set, the
\* pool has opened its minconn connections.
PoolInit ==
    /\ pc = [t \in Threads |-> "idle"]
    /\ sync_lock = NoThread
    /\ sync_event = TRUE
    /\ current = [t \in Threads |-> NoConn]
    /\ closedConns = {}
    /\ pool = [i \in 1..MinConn |-> i]
    /\ used = {}
    /\ takenBy = [c \in Conns |-> NoThread]
    /\ nconns = MinConn
    /\ arg = [t \in Threads |-> NoArg]
    /\ given = [t \in Threads |-> NoConn]
    /\ discarded = {}

\* ------------------------------------------------- psycopg2 pool calls
\* ThreadedConnectionPool.putconn(conn, close=...): the new idle list and the
\* new set of closed connections.  A connection goes back to the idle list
\* only when fewer than minconn are idle, close is false and it is still open.
PutConnRecycles(c, close) ==
    /\ Len(pool) < MinConn
    /\ ~close
    /\ c \notin closedConns

PutConnPool(c, close) ==
    IF PutConnRecycles(c, close) THEN Append(pool, c) ELSE pool

PutConnClosed(c, close) ==
    IF PutConnRecycles(c, close) THEN closedConns ELSE closedConns \cup {c}

\* the close argument _put_connection gives to putconn: close=has_error
PutCloseDropped(has_error) == FALSE

PutClose(has_error) == has_error

\* set_current_connection(None) at the end of _put_connection
ResetCurrentForgotten(t) == current

ResetCurrent(t) == [current EXCEPT ![t] = NoConn]

\* self.sync_event.set() at the end of _put_connection: the gate afterwards
SyncEventSetSkipped(e) == e

SyncEventSet(e) == TRUE

\* ------------------------------------------------------ get_connection
\* a thread calls get_connection()
CallGetConnectionPool(t) ==
    /\ pc[t] = "idle"
    /\ pc' = [pc EXCEPT ![t] = "gc_wait"]
    /\ UNCHANGED <<sync_lock, sync_event, current, closedConns, pool, used,
                   takenBy, nconns, arg, given, discarded>>

CallGetConnection(t) == CallGetConnectionPool(t) /\ UNCHANGED nonPoolVars

\* self.sync_event.wait()
GcWait(t) ==
    /\ UNCHANGED nonPoolVars
    /\ pc[t] = "gc_wait"
    /\ sync_event
    /\ pc' = [pc EXCEPT ![t] = "gc_lock"]
    /\ UNCHANGED <<sync_lock, sync_event, current, closedConns, pool, used,
                   takenBy, nconns, arg, given, discarded>>

\* with self.sync_lock:
GcLock(t) ==
    /\ UNCHANGED nonPoolVars
    /\ pc[t] = "gc_lock"
    /\ sync_lock = NoThread
    /\ sync_lock' = t
    /\ pc' = [pc EXCEPT ![t] = "gc_check"]
    /\ UNCHANGED <<sync_event, current, closedConns, pool, used,
                   takenBy, nconns, arg, given, discarded>>

\* the thread already has an open current connection
HoldsOpenConnection(t) ==
    /\ current[t] # NoConn
    /\ current[t] \notin closedConns

\* if not self.sync_event.is_set(): continue
GcGateCleared(t) ==
    /\ UNCHANGED nonPoolVars
    /\ pc[t] = "gc_check"
    /\ sync_lock = t
    /\ ~sync_event
    /\ sync_lock' = NoThread
    /\ pc' = [pc EXCEPT ![t] = "gc_wait"]
    /\ UNCHANGED <<sync_event, current, closedConns, pool, used,
                   takenBy, nconns, arg, given, discarded>>

\* old_conn is open: raise BadCodingError (the with statement frees the lock)
GcBadCoding(t) ==
    /\ UNCHANGED nonPoolVars
    /\ pc[t] = "gc_check"
    /\ sync_lock = t
    /\ sync_event
    /\ HoldsOpenConnection(t)
    /\ sync_lock' = NoThread
    /\ pc' = [pc EXCEPT ![t] = "gc_raise_BadCodingError"]
    /\ UNCHANGED <<sync_event, current, closedConns, pool, used,
                   takenBy, nconns, arg, given, discarded>>

\* old_conn is closed: self._put_connection(old_conn, True)
GcDiscardOld(t) ==
    /\ UNCHANGED nonPoolVars
    /\ pc[t] = "gc_check"
    /\ sync_lock = t
    /\ sync_event
    /\ current[t] # NoConn
    /\ current[t] \in closedConns
    /\ pool' = PutConnPool(current[t], PutClose(TRUE))
    /\ closedConns' = PutConnClosed(current[t], PutClose(TRUE))
    /\ used' = used \ {current[t]}
    /\ takenBy' = [takenBy EXCEPT ![current[t]] = NoThread]
    /\ discarded' = discarded \cup {current[t]}
    /\ current' = ResetCurrent(t)
    /\ sync_event' = SyncEventSet(sync_event)
    /\ pc' = [pc EXCEPT ![t] = "gc_getconn"]
    /\ UNCHANGED <<sync_lock, nconns, arg, given>>

\* no old connection: go on to the pool
GcNoOld(t) ==
    /\ UNCHANGED nonPoolVars
    /\ pc[t] = "gc_check"
    /\ sync_lock = t
    /\ sync_event
    /\ current[t] = NoConn
    /\ pc' = [pc EXCEPT ![t] = "gc_getconn"]
    /\ UNCHANGED <<sync_lock, sync_event, current, closedConns, pool, used,
                   takenBy, nconns, arg, given, discarded>>

\* what set_current_connection(connection) stores for the thread
SetCurrentAfterGet(t, c) == [current EXCEPT ![t] = c]

\* connection_pool.getconn() hands out an idle connection (the last of _pool)
GcGetIdle(t) ==
    /\ UNCHANGED nonPoolVars
    /\ pc[t] = "gc_getconn"
    /\ sync_lock = t
    /\ pool # <<>>
    /\ LET c == pool[Len(pool)] IN
        /\ pool' = SubSeq(pool, 1, Len(pool) - 1)
        /\ used' = used \cup {c}
        /\ takenBy' = [takenBy EXCEPT ![c] = t]
        /\ current' = SetCurrentAfterGet(t, c)
    /\ sync_lock' = NoThread
    /\ pc' = [pc EXCEPT ![t] = "gc_return"]
    /\ UNCHANGED <<sync_event, closedConns, nconns, arg, given, discarded>>

\* getconn(): fewer than maxconn connections are checked out
PoolHasRoomAlways == TRUE

PoolHasRoom == Cardinality(used) < MaxConn

\* connection_pool.getconn() opens a new connection
GcGetNew(t) ==
    /\ UNCHANGED nonPoolVars
    /\ pc[t] = "gc_getconn"
    /\ sync_lock = t
    /\ pool = <<>>
    /\ PoolHasRoom
    /\ nconns < MaxConnIds
    /\ LET c == nconns + 1 IN
        /\ nconns' = c
        /\ used' = used \cup {c}
        /\ takenBy' = [takenBy EXCEPT ![c] = t]
        /\ current' = SetCurrentAfterGet(t, c)
    /\ sync_lock' = NoThread
    /\ pc' = [pc EXCEPT ![t] = "gc_return"]
    /\ UNCHANGED <<sync_event, closedConns, pool, arg, given, discarded>>

\* connection_pool.getconn() cannot reach the database: psycopg2.OperationalError
\* leaves get_connection (it is no PoolError)
GcGetFails(t) ==
    /\ UNCHANGED nonPoolVars
    /\ pc[t] = "gc_getconn"
    /\ sync_lock = t
    /\ pool = <<>>
    /\ PoolHasRoom
    /\ sync_lock' = NoThread
    /\ pc' = [pc EXCEPT ![t] = "gc_raise_OperationalError"]
    /\ UNCHANGED <<sync_event, current, closedConns, pool, used, takenBy,
                   nconns, arg, given, discarded>>

\* except PoolError: self.sync_event.clear(); continue
GcExhausted(t) ==
    /\ UNCHANGED nonPoolVars
    /\ pc[t] = "gc_getconn"
    /\ sync_lock = t
    /\ pool = <<>>
    /\ ~PoolHasRoom
    /\ sync_event' = FALSE
    /\ sync_lock' = NoThread
    /\ pc' = [pc EXCEPT ![t] = "gc_wait"]
    /\ UNCHANGED <<current, closedConns, pool, used, takenBy, nconns, arg,
                   given, discarded>>

\* return connection
GcReturnPool(t) ==
    /\ pc[t] = "gc_return"
    /\ pc' = [pc EXCEPT ![t] = "idle"]
    /\ given' = [given EXCEPT ![t] = current[t]]
    /\ UNCHANGED <<sync_lock, sync_event, current, closedConns, pool, used,
                   takenBy, nconns, arg, discarded>>

GcReturn(t) == GcReturnPool(t) /\ UNCHANGED nonPoolVars

\* ------------------------------------------------------ put_connection
\* a thread calls put_connection(connection, has_error) with the connection
\* get_connection returned to it (ConnectionContext.connection)
CallPutConnectionPool(t, e) ==
    /\ pc[t] = "idle"
    /\ given[t] # NoConn
    /\ pc' = [pc EXCEPT ![t] = "pc_lock"]
    /\ arg' = [arg EXCEPT ![t] = [conn |-> given[t], has_error |-> e]]
    /\ UNCHANGED <<sync_lock, sync_event, current, closedConns, pool, used,
                   takenBy, nconns, given, discarded>>

CallPutConnection(t, e) == CallPutConnectionPool(t, e) /\ UNCHANGED nonPoolVars

\* with self.sync_lock:
PcLock(t) ==
    /\ UNCHANGED nonPoolVars
    /\ pc[t] = "pc_lock"
    /\ sync_lock = NoThread
    /\ sync_lock' = t
    /\ pc' = [pc EXCEPT ![t] = "pc_body"]
    /\ UNCHANGED <<sync_event, current, closedConns, pool, used,
                   takenBy, nconns, arg, given, discarded>>

\* _put_connection: connection != current: raise BadCodingError
PcInvalid(t) ==
    /\ UNCHANGED nonPoolVars
    /\ pc[t] = "pc_body"
    /\ sync_lock = t
    /\ arg[t].conn # current[t]
    /\ sync_lock' = NoThread
    /\ pc' = [pc EXCEPT ![t] = "idle"]
    /\ arg' = [arg EXCEPT ![t] = NoArg]
    /\ UNCHANGED <<sync_event, current, closedConns, pool, used, takenBy,
                   nconns, given, discarded>>

\* _put_connection: putconn(connection, close=has_error), reset the current
\* connection, set the gate
PcPutPool(t) ==
    /\ pc[t] = "pc_body"
    /\ sync_lock = t
    /\ arg[t].conn = current[t]
    /\ LET c == arg[t].conn
           e == arg[t].has_error IN
        /\ pool' = PutConnPool(c, PutClose(e))
        /\ closedConns' = PutConnClosed(c, PutClose(e))
        /\ used' = used \ {c}
        /\ takenBy' = [takenBy EXCEPT ![c] = NoThread]
        /\ discarded' = IF e THEN discarded \cup {c} ELSE discarded
    /\ current' = ResetCurrent(t)
    /\ sync_event' = SyncEventSet(sync_event)
    /\ sync_lock' = NoThread
    /\ pc' = [pc EXCEPT ![t] = "idle"]
    /\ arg' = [arg EXCEPT ![t] = NoArg]
    /\ given' = [given EXCEPT ![t] = NoConn]
    /\ UNCHANGED <<nconns>>

PcPut(t) == PcPutPool(t) /\ UNCHANGED nonPoolVars

\* the error raised in get_connection reaches its caller
GcRaisedPool(t) ==
    /\ pc[t] \in {"gc_raise_BadCodingError", "gc_raise_OperationalError"}
    /\ pc' = [pc EXCEPT ![t] = "idle"]
    /\ UNCHANGED <<arg, sync_lock, sync_event, current, closedConns, pool, used,
                   takenBy, nconns, given, discarded>>

GcRaised(t) == GcRaisedPool(t) /\ UNCHANGED nonPoolVars

\* the connection a thread is using breaks (server gone): .closed becomes true
ConnectionBreaks(t) ==
    /\ UNCHANGED nonPoolVars
    /\ pc[t] = "idle"
    /\ HoldsOpenConnection(t)
    /\ closedConns' = closedConns \cup {current[t]}
    /\ UNCHANGED <<pc, sync_lock, sync_event, current, pool, used, takenBy,
                   nconns, arg, given, discarded>>

PoolNext ==
    \E t \in Threads :
        \/ CallGetConnection(t)
        \/ GcWait(t)
        \/ GcLock(t)
        \/ GcGateCleared(t)
        \/ GcBadCoding(t)
        \/ GcDiscardOld(t)
        \/ GcNoOld(t)
        \/ GcGetIdle(t)
        \/ GcGetNew(t)
        \/ GcGetFails(t)
        \/ GcExhausted(t)
        \/ GcReturn(t)
        \/ \E e \in BOOLEAN : CallPutConnection(t, e)
        \/ GcRaised(t)
        \/ PcLock(t)
        \/ PcInvalid(t)
        \/ PcPut(t)
        \/ ConnectionBreaks(t)

\* ------------------------------ ConnectionContext and retry_on_db_failure
\* DATASTORE_MAX_RETRIES and DATASTORE_RETRY_TIMEOUT (ms) when not configured
MAX_RETRIES == 3
RETRY_TIMEOUT == 10

\* what may leave the body of the with block: nothing, a domain exception, a
\* lost connection (OperationalError without pgcode), an OperationalError
\* with a pgcode, any other psycopg2.Error with a pgcode
BodyExceptions ==
    {"none", "ModelExists", "OperationalError", "OperationalError_pgcode",
     "IntegrityError"}

\* issubclass(exception, psycopg2.Error)
IsPgError(e) == e \in {"OperationalError", "OperationalError_pgcode", "IntegrityError"}
\* isinstance(e.base_exception, psycopg2.OperationalError)
IsOperationalError(e) == e \in {"OperationalError", "OperationalError_pgcode"}
\* e.base_exception.pgcode is None
PgCodeIsNone(e) == e = "OperationalError"

CtxInit ==
    /\ cpc = [t \in Threads |-> "idle"]
    /\ exc = [t \in Threads |-> "none"]
    /\ err = [t \in Threads |-> "none"]
    /\ txn_end = [t \in Threads |-> "none"]
    /\ put_end = [t \in Threads |-> "none"]
    /\ tries = [t \in Threads |-> 0]
    /\ attempts = [t \in Threads |-> 0]
    /\ sleeps = [t \in Threads |-> 0]

\* a new invocation of the wrapped function: nothing is known of the last one
NewAttempt(t) ==
    /\ exc' = [exc EXCEPT ![t] = "none"]
    /\ err' = [err EXCEPT ![t] = "none"]
    /\ txn_end' = [txn_end EXCEPT ![t] = "none"]
    /\ put_end' = [put_end EXCEPT ![t] = "none"]
    /\ attempts' = [attempts EXCEPT ![t] = @ + 1]

\* wrapper(): tries = 0, fn(*args, **kwargs), whose with statement calls
\* ConnectionContext.__enter__ and so get_connection()
RetryCall(t) ==
    /\ cpc[t] = "idle"
    /\ CallGetConnectionPool(t)
    /\ NewAttempt(t)
    /\ cpc' = [cpc EXCEPT ![t] = "enter"]
    /\ UNCHANGED <<tries, sleeps, nonCtxVars>>

\* __enter__: get_connection() returns self.connection (given[t]),
\* connection.__enter__()
CtxEnterReturns(t) ==
    /\ cpc[t] = "enter"
    /\ GcReturnPool(t)
    /\ cpc' = [cpc EXCEPT ![t] = "body"]
    /\ UNCHANGED <<exc, err, txn_end, put_end, tries, attempts, sleeps, nonCtxVars>>

\* __enter__: get_connection() raises; the body and __exit__ do not run
CtxEnterRaises(t) ==
    /\ cpc[t] = "enter"
    /\ GcRaisedPool(t)
    /\ err' = [err EXCEPT ![t] =
                  IF pc[t] = "gc_raise_BadCodingError"
                  THEN "BadCodingError" ELSE "psycopg2.OperationalError"]
    /\ cpc' = [cpc EXCEPT ![t] = "attempt_over"]
    /\ UNCHANGED <<exc, txn_end, put_end, tries, attempts, sleeps, nonCtxVars>>

\* the body of the with block ends, normally or with an exception; the
\* connection may have broken meanwhile (.closed is true then)
CtxBody(t, e, breaks) ==
    /\ cpc[t] = "body"
    /\ exc' = [exc EXCEPT ![t] = e]
    /\ closedConns' = IF breaks THEN closedConns \cup {given[t]} ELSE closedConns
    /\ cpc' = [cpc EXCEPT ![t] = "exit"]
    /\ UNCHANGED <<pc, sync_lock, sync_event, current, pool, used, takenBy,
                   nconns, arg, given, discarded>>
    /\ UNCHANGED <<err, txn_end, put_end, tries, attempts, sleeps, nonCtxVars>>

\* has_pg_error of __exit__
HasPgError(t) == exc[t] # "none" /\ IsPgError(exc[t])

\* __exit__: connection.__exit__ commits or rolls back when the connection is
\* not closed; then put_connection(self.connection, has_pg_error) is called
CtxExit(t) ==
    /\ cpc[t] = "exit"
    /\ txn_end' = [txn_end EXCEPT ![t] =
                      IF given[t] \in closedConns THEN "skipped"
                      ELSE IF exc[t] = "none" THEN "committed" ELSE "rolledback"]
    /\ CallPutConnectionPool(t, HasPgError(t))
    /\ cpc' = [cpc EXCEPT ![t] = "put"]
    /\ UNCHANGED <<exc, err, put_end, tries, attempts, sleeps, nonCtxVars>>

\* __exit__: the commit or the rollback of connection.__exit__ raises a
\* psycopg2.Error, which leaves __exit__ at once; the server may be gone
\* (the connection is closed then) or have refused the commit
CtxExitTransactionFails(t, closes) ==
    /\ cpc[t] = "exit"
    /\ given[t] \notin closedConns
    /\ exc[t] # "none" => closes
    /\ txn_end' = [txn_end EXCEPT ![t] =
                      IF exc[t] = "none" THEN "commit_failed" ELSE "rollback_failed"]
    /\ closedConns' = IF closes THEN closedConns \cup {given[t]} ELSE closedConns
    /\ err' = [err EXCEPT ![t] = "psycopg2.Error"]
    /\ cpc' = [cpc EXCEPT ![t] = "attempt_over"]
    /\ UNCHANGED <<pc, sync_lock, sync_event, current, pool, used, takenBy,
                   nconns, arg, given, discarded>>
    /\ UNCHANGED <<exc, put_end, tries, attempts, sleeps, nonCtxVars>>

\* __exit__: put_connection returns; without a psycopg2.Error the exception
\* of the body, if any, goes on to the caller
CtxPutReturns(t) ==
    /\ cpc[t] = "put"
    /\ PcPutPool(t)
    /\ put_end' = [put_end EXCEPT ![t] =
                      IF PutConnRecycles(arg[t].conn, PutClose(arg[t].has_error))
                      THEN "recycled" ELSE "closed"]
    /\ err' = [err EXCEPT ![t] = IF HasPgError(t) THEN "none" ELSE exc[t]]
    /\ cpc' = [cpc EXCEPT ![t] = IF HasPgError(t) THEN "raise_error" ELSE "attempt_over"]
    /\ UNCHANGED <<exc, txn_end, tries, attempts, sleeps, nonCtxVars>>

\* __exit__: raise_error(exception_value) raises DatabaseError(msg, e)
CtxRaiseError(t) ==
    /\ cpc[t] = "raise_error"
    /\ err' = [err EXCEPT ![t] = "DatabaseError"]
    /\ cpc' = [cpc EXCEPT ![t] = "attempt_over"]
    /\ UNCHANGED <<exc, txn_end, put_end, tries, attempts, sleeps,
                   poolVars, nonCtxVars>>

\* except DatabaseError as e, with an OperationalError without pgcode as base
RetryableAnyDatabaseError(t) == err[t] = "DatabaseError"

Retryable(t) ==
    /\ err[t] = "DatabaseError"
    /\ IsOperationalError(exc[t])
    /\ PgCodeIsNone(exc[t])

\* if tries < MAX_RETRIES: ... else: raise, for the tries counted so far
GivesUpOneLater(n) == ~(n <= MAX_RETRIES)

GivesUp(n) == ~(n < MAX_RETRIES)

\* return fn(*args, **kwargs)
RetryReturns(t) ==
    /\ cpc[t] = "attempt_over"
    /\ err[t] = "none"
    /\ cpc' = [cpc EXCEPT ![t] = "over"]
    /\ UNCHANGED <<exc, err, txn_end, put_end, tries, attempts, sleeps,
                   poolVars, nonCtxVars>>

\* the exception leaves the wrapper: it is no DatabaseError, or not a
\* retryable one, or the retries are used up
RetryRaises(t) ==
    /\ cpc[t] = "attempt_over"
    /\ err[t] # "none"
    /\ ~Retryable(t) \/ GivesUp(tries[t] + 1)
    /\ tries' = [tries EXCEPT ![t] = IF Retryable(t) THEN @ + 1 ELSE @]
    /\ cpc' = [cpc EXCEPT ![t] = "over"]
    /\ UNCHANGED <<exc, err, txn_end, put_end, attempts, sleeps,
                   poolVars, nonCtxVars>>

\* tries += 1, "Retrying...", sleep(RETRY_TIMEOUT / 1000), fn(*args, **kwargs)
RetryAgain(t) ==
    /\ cpc[t] = "attempt_over"
    /\ Retryable(t)
    /\ ~GivesUp(tries[t] + 1)
    /\ pc[t] = "idle"
    /\ tries' = [tries EXCEPT ![t] = @ + 1]
    /\ sleeps' = [sleeps EXCEPT ![t] = IF RETRY_TIMEOUT # 0 THEN @ + 1 ELSE @]
    /\ CallGetConnectionPool(t)
    /\ NewAttempt(t)
    /\ cpc' = [cpc EXCEPT ![t] = "enter"]
    /\ UNCHANGED nonCtxVars

\* the caller has the result or the exception of the wrapped call
CtxForget(t) ==
    /\ cpc[t] = "over"
    /\ cpc' = [cpc EXCEPT ![t] = "idle"]
    /\ exc' = [exc EXCEPT ![t] = "none"]
    /\ err' = [err EXCEPT ![t] = "none"]
    /\ txn_end' = [txn_end EXCEPT ![t] = "none"]
    /\ put_end' = [put_end EXCEPT ![t] = "none"]
    /\ tries' = [tries EXCEPT ![t] = 0]
    /\ attempts' = [attempts EXCEPT ![t] = 0]
    /\ sleeps' = [sleeps EXCEPT ![t] = 0]
    /\ UNCHANGED <<poolVars, nonCtxVars>>

\* _put_connection's "Invalid connection" branch is left out:
\* ConnectionContext always gives back the connection get_connection gave it
CtxNext ==
    \E t \in Threads :
        \/ RetryCall(t)
        \/ GcWait(t)
        \/ GcLock(t)
        \/ GcGateCleared(t)
        \/ GcBadCoding(t)
        \/ GcDiscardOld(t)
        \/ GcNoOld(t)
        \/ GcGetIdle(t)
        \/ GcGetNew(t)
        \/ GcGetFails(t)
        \/ GcExhausted(t)
        \/ CtxEnterReturns(t)
        \/ CtxEnterRaises(t)
        \/ \E e \in BodyExceptions, breaks \in BOOLEAN : CtxBody(t, e, breaks)
        \/ CtxExit(t)
        \/ \E closes \in BOOLEAN : CtxExitTransactionFails(t, closes)
        \/ PcLock(t)
        \/ CtxPutReturns(t)
        \/ CtxRaiseError(t)
        \/ RetryReturns(t)
        \/ RetryRaises(t)
        \/ RetryAgain(t)
        \/ CtxForget(t)

\* ---------------------------------------------------------------- writer
NoIndex == 0 - 1
NoCalls == [ctx |-> 0, occ |-> 0, gcmi |-> 0, insert |-> <<>>, handle |-> 0]
NoLast == [req |-> 0, serial |-> 0, txn |-> "none", calls |-> NoCalls,
           idx |-> NoIndex, werr |-> "none"]

\* the write requests the callers submit: events, information, user id
Requests == <<
    [events |-> <<RequestCreateEvent("a/1", [x |-> "v1"]),
                  RequestDeleteEvent("b/2")>>,
     information |-> "content1", user_id |-> 1],
    [events |-> <<RequestUpdateEvent("a/1", [x |-> "v2", y |-> Null], EmptyDict),
                  RequestRestoreEvent("b/2")>>,
     information |-> "content2", user_id |-> 2],
    [events |-> <<RequestDeleteEvent("b/2"),
                  RequestCreateEvent("a/1", [x |-> "v1"])>>,
     information |-> "content3", user_id |-> 3] >>

\* the stored models at the start: b/2 exists, a/1 does not
InitialModels == [fq \in {"b/2"} |-> [y |-> "v1", meta_deleted |-> FALSE]]

WriterInit ==
    /\ wpc = [w \in Writers |-> "idle"]
    /\ breq = [w \in Writers |-> 0]
    /\ queue = <<>>
    /\ serial = [w \in Writers |-> 0]
    /\ nArrived = 0
    /\ txn = [w \in Writers |-> "none"]
    /\ calls = [w \in Writers |-> NoCalls]
    /\ idx = [w \in Writers |-> NoIndex]
    /\ dbev = [w \in Writers |-> <<>>]
    /\ pending = [w \in Writers |-> <<>>]
    /\ werr = [w \in Writers |-> "none"]
    /\ models = InitialModels
    /\ position = 0
    /\ log = <<>>
    /\ last = NoLast

\* translate every event of a request against the snapshot; the first error
\* ends the translation
RECURSIVE TranslateAll(_, _)
TranslateAll(evs, snapshot) ==
    IF evs = <<>> THEN Translated(<<>>)
    ELSE LET first == translate(Head(evs), snapshot) IN
         IF first.error # "none" THEN first
         ELSE LET rest == TranslateAll(Tail(evs), snapshot) IN
              IF rest.error # "none" THEN rest
              ELSE Translated(first.events \o rest.events)

\* Database: what one committed db event does to the stored models
ApplyDbEvent(ms, e) ==
    LET put(m) == [k \in DOMAIN ms \cup {e.fqid} |-> IF k = e.fqid THEN m ELSE ms[k]]
        old == ms[e.fqid]
    IN  IF e.type = "create" THEN
            put([f \in DOMAIN e.fields \cup {META_DELETED} |->
                    IF f = META_DELETED THEN FALSE ELSE e.fields[f]])
        ELSE IF e.type = "update" THEN
            put([f \in DOMAIN old \cup DOMAIN e.fields |->
                    IF f \in DOMAIN e.fields THEN e.fields[f] ELSE old[f]])
        ELSE IF e.type = "deletefields" THEN
            put([f \in DOMAIN old \ e.fields |-> old[f]])
        ELSE IF e.type = "delete" THEN put([old EXCEPT ![META_DELETED] = TRUE])
        ELSE IF e.type = "restore" THEN put([old EXCEPT ![META_DELETED] = FALSE])
        ELSE ms

RECURSIVE ApplyDbEvents(_, _)
ApplyDbEvents(ms, evs) ==
    IF evs = <<>> THEN ms
    ELSE ApplyDbEvents(ApplyDbEvent(ms, Head(evs)), Tail(evs))

\* WriteSequencer.acquire: the caller joins the ticket queue
EnqueueFront(q, w) == <<w>> \o q

Enqueue(q, w) == Append(q, w)

\* WriteSequencer: the ticket of w is the one being served
MayEnterAny(w) == w \in SeqToSet(queue)

MayEnter(w) == queue # <<>> /\ Head(queue) = w

\* ReadDatabase.get_current_migration_index: the committed index
get_current_migration_index == position

\* the arguments write gives to Database.insert_events
InsertEventsArgsNextIndex(r, i) ==
    <<Requests[r].events, i + 1, Requests[r].information, Requests[r].user_id>>

InsertEventsArgs(r, i) ==
    <<Requests[r].events, i, Requests[r].information, Requests[r].user_id>>

\* Database.insert_events: the rows of the batch, tagged with index + 1
RowsUntagged(evs, i, batch) ==
    [k \in 1..Len(evs) |-> [event |-> evs[k], index |-> i, batch |-> batch]]

Rows(evs, i, batch) ==
    [k \in 1..Len(evs) |-> [event |-> evs[k], index |-> i + 1, batch |-> batch]]

\* the transaction of w ends: "committed" or "rolledback"
FinalizedNot(w, how) == txn

Finalized(w, how) == [txn EXCEPT ![w] = how]

\* rollback of the open transaction: the inserted rows are gone
RollbackKeepsRows(w) == pending

RolledBack(w) == [pending EXCEPT ![w] = <<>>]

\* write(write_requests) is called with a request: the sequencer issues its
\* ticket
WCall(w, r) ==
    /\ UNCHANGED nonWriterVars
    /\ wpc[w] = "idle"
    /\ nArrived < MaxWrites
    /\ breq' = [breq EXCEPT ![w] = r]
    /\ queue' = Enqueue(queue, w)
    /\ nArrived' = nArrived + 1
    /\ serial' = [serial EXCEPT ![w] = nArrived + 1]
    /\ wpc' = [wpc EXCEPT ![w] = "wait_turn"]
    /\ UNCHANGED <<txn, calls, idx, dbev, pending, werr, models, position,
                   log, last>>

\* the ticket is admitted: write_with_database_context starts
WEnter(w) ==
    /\ UNCHANGED nonWriterVars
    /\ wpc[w] = "wait_turn"
    /\ MayEnter(w)
    /\ wpc' = [wpc EXCEPT ![w] = "open"]
    /\ UNCHANGED <<breq, queue, serial, nArrived, txn, calls, idx, dbev,
                   pending, werr, models, position, log,
                   last>>

\* with self.database.get_context(): the transaction begins
WOpen(w) ==
    /\ UNCHANGED nonWriterVars
    /\ wpc[w] = "open"
    /\ txn' = [txn EXCEPT ![w] = "open"]
    /\ calls' = [calls EXCEPT ![w].ctx = @ + 1]
    /\ wpc' = [wpc EXCEPT ![w] = "occ"]
    /\ UNCHANGED <<breq, queue, serial, nArrived, idx, dbev, pending, werr,
                   models, position, log,
                   last>>

\* occ_locker.assert_locked_fields(write_request): passes or raises
WOcc(w, ok) ==
    /\ UNCHANGED nonWriterVars
    /\ wpc[w] = "occ"
    /\ calls' = [calls EXCEPT ![w].occ = breq[w]]
    /\ wpc' = [wpc EXCEPT ![w] = IF ok THEN "translate" ELSE "rollback"]
    /\ werr' = [werr EXCEPT ![w] = IF ok THEN "none" ELSE "ModelLocked"]
    /\ UNCHANGED <<breq, queue, serial, nArrived, txn, idx, dbev, pending,
                   models, position, log,
                   last>>

\* every request event is translated; the first error fails the call
WTranslate(w) ==
    /\ UNCHANGED nonWriterVars
    /\ wpc[w] = "translate"
    /\ LET tr == TranslateAll(Requests[breq[w]].events, models) IN
        /\ dbev' = [dbev EXCEPT ![w] = tr.events]
        /\ werr' = [werr EXCEPT ![w] = tr.error]
        /\ wpc' = [wpc EXCEPT ![w] =
                      IF tr.error = "none" THEN "read_index" ELSE "rollback"]
    /\ UNCHANGED <<breq, queue, serial, nArrived, txn, calls, idx, pending,
                   models, position, log,
                   last>>

\* migration_index = read_database.get_current_migration_index()
WReadIndex(w) ==
    /\ UNCHANGED nonWriterVars
    /\ wpc[w] = "read_index"
    /\ idx' = [idx EXCEPT ![w] = get_current_migration_index]
    /\ calls' = [calls EXCEPT ![w].gcmi = @ + 1]
    /\ wpc' = [wpc EXCEPT ![w] = "insert"]
    /\ UNCHANGED <<breq, queue, serial, nArrived, txn, dbev, pending, werr,
                   models, position, log,
                   last>>

\* database.insert_events(events, migration_index, information, user_id)
WInsert(w, ok) ==
    /\ UNCHANGED nonWriterVars
    /\ wpc[w] = "insert"
    /\ calls' = [calls EXCEPT ![w].insert = InsertEventsArgs(breq[w], idx[w])]
    /\ pending' = IF ok
                  THEN [pending EXCEPT ![w] = Rows(dbev[w], idx[w], serial[w])]
                  ELSE pending
    /\ werr' = [werr EXCEPT ![w] = IF ok THEN "none" ELSE "DatabaseError"]
    /\ wpc' = [wpc EXCEPT ![w] = IF ok THEN "notify" ELSE "rollback"]
    /\ UNCHANGED <<breq, queue, serial, nArrived, txn, idx, dbev, models,
                   position, log,
                   last>>

\* messaging.handle_events(...)
WNotify(w, ok) ==
    /\ UNCHANGED nonWriterVars
    /\ wpc[w] = "notify"
    /\ calls' = [calls EXCEPT ![w].handle = @ + 1]
    /\ werr' = [werr EXCEPT ![w] = IF ok THEN "none" ELSE "MessagingError"]
    /\ wpc' = [wpc EXCEPT ![w] = IF ok THEN "commit" ELSE "rollback"]
    /\ UNCHANGED <<breq, queue, serial, nArrived, txn, idx, dbev, pending,
                   models, position, log,
                   last>>

\* the context is left normally: the transaction commits
WCommit(w) ==
    /\ UNCHANGED nonWriterVars
    /\ wpc[w] = "commit"
    /\ txn' = Finalized(w, "committed")
    /\ log' = Append(log, [batch |-> serial[w], index |-> pending[w][1].index,
                           rows |-> pending[w]])
    /\ position' = pending[w][1].index
    /\ models' = ApplyDbEvents(models, dbev[w])
    /\ pending' = [pending EXCEPT ![w] = <<>>]
    /\ wpc' = [wpc EXCEPT ![w] = "release"]
    /\ UNCHANGED <<breq, queue, serial, nArrived, calls, idx, dbev, werr,
                   last>>

\* the commit itself fails
WCommitFails(w) ==
    /\ UNCHANGED nonWriterVars
    /\ wpc[w] = "commit"
    /\ werr' = [werr EXCEPT ![w] = "DatabaseError"]
    /\ wpc' = [wpc EXCEPT ![w] = "rollback"]
    /\ UNCHANGED <<breq, queue, serial, nArrived, txn, calls, idx, dbev,
                   pending, models, position, log,
                   last>>

\* the context is left by an error: the transaction is rolled back
WRollback(w) ==
    /\ UNCHANGED nonWriterVars
    /\ wpc[w] = "rollback"
    /\ txn' = Finalized(w, "rolledback")
    /\ pending' = RolledBack(w)
    /\ wpc' = [wpc EXCEPT ![w] = "release"]
    /\ UNCHANGED <<breq, queue, serial, nArrived, calls, idx, dbev, werr,
                   models, position, log,
                   last>>

\* WriteSequencer.release(ticket): the next ticket may proceed; write returns,
\* or raises werr, to its caller
WRelease(w) ==
    /\ UNCHANGED nonWriterVars
    /\ wpc[w] = "release"
    /\ queue' = Tail(queue)
    /\ last' = [req |-> breq[w], serial |-> serial[w], txn |-> txn[w],
                calls |-> calls[w], idx |-> idx[w], werr |-> werr[w]]
    /\ wpc' = [wpc EXCEPT ![w] = "idle"]
    /\ breq' = [breq EXCEPT ![w] = 0]
    /\ serial' = [serial EXCEPT ![w] = 0]
    /\ txn' = [txn EXCEPT ![w] = "none"]
    /\ calls' = [calls EXCEPT ![w] = NoCalls]
    /\ idx' = [idx EXCEPT ![w] = NoIndex]
    /\ dbev' = [dbev EXCEPT ![w] = <<>>]
    /\ werr' = [werr EXCEPT ![w] = "none"]
    /\ UNCHANGED <<nArrived, pending, models, position, log>>

WriterNext ==
    \E w \in Writers :
        \/ \E r \in 1..Len(Requests) : WCall(w, r)
        \/ WEnter(w)
        \/ WOpen(w)
        \/ \E ok \in BOOLEAN : WOcc(w, ok)
        \/ WTranslate(w)
        \/ WReadIndex(w)
        \/ \E ok \in BOOLEAN : WInsert(w, ok)
        \/ \E ok \in BOOLEAN : WNotify(w, ok)
        \/ WCommit(w)
        \/ WCommitFails(w)
        \/ WRollback(w)
        \/ WRelease(w)
\* ------------------------------------------------------ translate, applied
FieldNames == {"x", "y"}
FieldValues == {"v1", Null}
Dicts(keys, values) == UNION {[S -> values] : S \in SUBSET keys}

\* the models a snapshot may hold for a/1: none, or a model with its deletion
\* marker and some fields; b/2 is always there
ModelSnapshots ==
    {[fq \in {"b/2"} |-> [y |-> "v1", meta_deleted |-> FALSE]]}
    \cup
    {[fq \in {"a/1", "b/2"} |->
        IF fq = "b/2" THEN [y |-> "v1", meta_deleted |-> FALSE]
        ELSE [f \in S \cup {META_DELETED} |->
                 IF f = META_DELETED THEN d ELSE "v1"]] :
        S \in SUBSET FieldNames, d \in BOOLEAN}

\* the add / remove deltas of an update
ListDeltas == {EmptyDict, [x |-> <<"v1">>], [x |-> <<>>]}
ListFields ==
    {EmptyDict}
    \cup {[add |-> a] : a \in ListDeltas}
    \cup {[remove |-> r] : r \in ListDeltas}
    \cup {[add |-> a, remove |-> r] : a \in ListDeltas, r \in ListDeltas}

RequestEvents ==
    {RequestCreateEvent("a/1", fs) : fs \in Dicts(FieldNames, FieldValues)}
    \cup {RequestUpdateEvent("a/1", fs, lf) :
            fs \in Dicts(FieldNames, FieldValues), lf \in ListFields}
    \cup {RequestDeleteEvent("a/1"), RequestRestoreEvent("a/1")}

NotRun == [error |-> "notrun", events |-> <<>>]

\* no translation is going on
TrIdle ==
    /\ tev = RequestDeleteEvent("a/1")
    /\ tmodels = InitialModels
    /\ tres = NotRun

\* any request event against any snapshot
TrInit ==
    /\ tev \in RequestEvents
    /\ tmodels \in ModelSnapshots
    /\ tres = NotRun

\* EventTranslatorService.translate is called
Translate ==
    /\ tres = NotRun
    /\ tres' = translate(tev, tmodels)
    /\ UNCHANGED <<tev, tmodels, poolVars, writerVars, ctxVars>>

vars == <<poolVars, writerVars, trVars, ctxVars>>

Init == PoolInit /\ WriterInit /\ TrIdle /\ CtxInit

InitTranslate == PoolInit /\ WriterInit /\ TrInit /\ CtxInit

\* the steps a thread takes inside get_connection and put_connection once it
\* has called them, the waits for sync_lock apart
ThreadStep(t) ==
    \/ GcWait(t)
    \/ GcGateCleared(t)
    \/ GcBadCoding(t)
    \/ GcDiscardOld(t)
    \/ GcNoOld(t)
    \/ GcGetIdle(t)
    \/ GcGetNew(t)
    \/ GcGetFails(t)
    \/ GcExhausted(t)
    \/ GcReturn(t)
    \/ GcRaised(t)
    \/ PcInvalid(t)
    \/ PcPut(t)

\* the thread takes sync_lock
LockStep(t) == GcLock(t) \/ PcLock(t)

\* the connection handler under fair scheduling: a thread inside a call goes
\* on when it can, and a thread that waits for sync_lock gets it when the
\* lock is free again and again; callers need not call
SpecPoolFair ==
    /\ Init
    /\ [][PoolNext]_vars
    /\ \A t \in Threads : WF_vars(ThreadStep(t)) /\ SF_vars(LockStep(t))

\* threads that run a function under retry_on_db_failure whose body is one
\* ConnectionContext
SpecCtx == Init /\ [][CtxNext]_vars

\* translate on every request event and snapshot
SpecTranslate == InitTranslate /\ [][Translate]_vars

\* the connection handler under any interleaving of its calls
SpecPool == Init /\ [][PoolNext]_vars

\* concurrent calls of WriterService.write
SpecWriter == Init /\ [][WriterNext]_vars

\* ------------------------------------------------------------ writer claims
\* w is inside the commit critical section: its ticket was admitted and is
\* not released yet
InCS(w) ==
    wpc[w] \in {"open", "occ", "translate", "read_index", "insert", "notify",
                "commit", "rollback", "release"}

\* w has a ticket that is not released yet
HoldsTicket(w) == wpc[w] = "wait_turn" \/ InCS(w)

\* a call has released its ticket
SomeReleased == last.serial # 0

\* the rows of a batch that are pending in some transaction
PendingOf(batch) ==
    UNION {{<<u, k>> : k \in {j \in DOMAIN pending[u] : pending[u][j].batch = batch}} :
           u \in Writers}

LogIndexes == {log[i].index : i \in 1..Len(log)}
LogBatches == {log[i].batch : i \in 1..Len(log)}

\* C1: at most one write call is inside the commit critical section (its
\* write_with_database_context) at any time.
C1_MutualExclusion ==
    \A w1, w2 \in Writers : (w1 # w2 /\ InCS(w1)) => ~InCS(w2)

\* one call is in the critical section while another waits with its ticket
C1_Witness ==
    \E w1, w2 \in Writers :
        w1 # w2 /\ wpc[w1] = "insert" /\ wpc[w2] = "wait_turn"

\* C2: batches enter the critical section in the order of their acquire():
\* while a batch is inside, no batch that acquired its ticket earlier still
\* holds an unreleased ticket.
C2_TicketOrder ==
    \A w, u \in Writers :
        (w # u /\ InCS(w) /\ HoldsTicket(u)) => serial[u] > serial[w]

\* a later batch is inside while two batches that arrived after it wait
C2_Witness ==
    \E w, u, v \in Writers :
        /\ InCS(w) /\ wpc[u] = "wait_turn" /\ wpc[v] = "wait_turn"
        /\ serial[w] < serial[u] /\ serial[u] < serial[v]

C4_StepOrder ==
    \A w \in Writers :
        /\ calls[w].occ # 0 => calls[w].ctx >= 1
        /\ wpc[w] \in {"translate", "read_index", "insert", "notify", "commit"}
              => (txn[w] = "open" /\ calls[w].occ = breq[w])
        /\ calls[w].insert # <<>> => (calls[w].occ = breq[w] /\ txn[w] # "none")
        /\ pending[w] # <<>> => (txn[w] = "open" /\ InCS(w))
        /\ idx[w] # NoIndex => InCS(w)
        /\ SomeReleased => last.txn \in {"committed", "rolledback"}

\* a call has persisted, failed afterwards and released its ticket
C4_Witness ==
    SomeReleased /\ last.txn = "rolledback" /\ last.calls.handle = 1

\* C5: a successful write of a request has opened a database context, called
\* assert_locked_fields with the request, read the migration index exactly
\* once, called insert_events with the request's events, the index it read,
\* the request's information and user id, and called handle_events once.
C5_SuccessfulWriteCalls ==
    (SomeReleased /\ last.werr = "none") =>
        /\ last.calls.ctx >= 1
        /\ last.calls.occ = last.req
        /\ last.calls.gcmi = 1
        /\ last.calls.insert =
              <<Requests[last.req].events, last.idx,
                Requests[last.req].information, Requests[last.req].user_id>>
        /\ last.calls.handle = 1

\* a write has succeeded after another batch was committed
C5_Witness ==
    SomeReleased /\ last.werr = "none" /\ last.idx >= 1

\* C6: a call that fails after its ticket was acquired is rolled back before
\* the ticket is released: once released, none of its rows is pending or
\* committed, and a later ticket holder finds no rows of any other batch
\* pending.
C6_RollbackBeforeRelease ==
    /\ (SomeReleased /\ last.werr # "none") =>
          /\ last.txn = "rolledback"
          /\ PendingOf(last.serial) = {}
          /\ last.serial \notin LogBatches
    /\ \A h, u \in Writers : (h # u /\ InCS(h)) => pending[u] = <<>>

\* a call failed in notify and released; a later ticket holder is inside
C6_Witness ==
    /\ SomeReleased /\ last.werr = "MessagingError"
    /\ \E h \in Writers : wpc[h] = "read_index" /\ serial[h] > last.serial

TranslationErrors == {"ModelExists", "ModelDoesNotExist", "ModelNotDeleted"}

\* the error a request event's precondition asks for in the stored state
Contradiction(ev, ms) ==
    IF ev.type = "create"
    THEN (IF ev.fqid \in DOMAIN ms THEN "ModelExists" ELSE "none")
    ELSE IF ev.type \in {"update", "delete"}
    THEN (IF ev.fqid \notin DOMAIN ms \/ ms[ev.fqid].meta_deleted
          THEN "ModelDoesNotExist" ELSE "none")
    ELSE (IF ev.fqid \notin DOMAIN ms \/ ~ms[ev.fqid].meta_deleted
          THEN "ModelNotDeleted" ELSE "none")

\* the error of the first event of a request that contradicts the stored state
RECURSIVE FirstContradiction(_, _)
FirstContradiction(evs, ms) ==
    IF evs = <<>> THEN "none"
    ELSE IF Contradiction(Head(evs), ms) # "none"
    THEN Contradiction(Head(evs), ms)
    ELSE FirstContradiction(Tail(evs), ms)

\* C7: when the translation of an event of the request fails, the call fails
\* with that error: a call goes on to claim an index and persist only when no
\* event contradicts the stored state, and a call that ends with a
\* translation error has read no index, inserted nothing, notified nobody and
\* left nothing committed.
C7_TranslationFailureFailsCall ==
    /\ \A w \in Writers :
          /\ wpc[w] \in {"read_index", "insert", "notify", "commit"} =>
                \A k \in 1..Len(Requests[breq[w]].events) :
                    Contradiction(Requests[breq[w]].events[k], models) = "none"
          /\ (wpc[w] = "rollback" /\ werr[w] \in TranslationErrors) =>
                werr[w] = FirstContradiction(Requests[breq[w]].events, models)
          /\ werr[w] \in TranslationErrors =>
                /\ idx[w] = NoIndex
                /\ calls[w].gcmi = 0
                /\ calls[w].insert = <<>>
                /\ calls[w].handle = 0
                /\ pending[w] = <<>>
                /\ serial[w] \notin LogBatches
    /\ last.werr \in TranslationErrors =>
          /\ last.txn = "rolledback"
          /\ last.idx = NoIndex
          /\ last.calls.gcmi = 0
          /\ last.calls.insert = <<>>
          /\ last.calls.handle = 0
          /\ PendingOf(last.serial) = {}
          /\ last.serial \notin LogBatches

\* a call whose first event translates and whose second does not has failed
C7_Witness ==
    /\ last.werr = "ModelExists"
    /\ Contradiction(Requests[last.req].events[1], models) = "none"

\* ------------------------------------------------ connection handler claims
\* the open connections thread t has checked out from the pool
OpenCheckedOut(t) == {c \in used : takenBy[c] = t /\ c \notin closedConns}

C9_HolderNeverBlocks ==
    \A t \in Threads :
        (pc[t] = "gc_wait" /\ HoldsOpenConnection(t)) => sync_event

\* C10: a connection given back with has_error=True is closed, is neither
\* idle in the pool nor checked out nor any thread's current connection, and
\* the connection a later get_connection returns is an open one that was
\* never given back with has_error=True.
C10_ErroredNeverHandedOut ==
    /\ \A c \in discarded :
          /\ c \in closedConns
          /\ c \notin SeqToSet(pool)
          /\ c \notin used
          /\ \A t \in Threads : current[t] # c
    /\ \A t \in Threads :
          pc[t] = "gc_return" =>
              /\ current[t] # NoConn
              /\ current[t] \notin closedConns
              /\ current[t] \notin discarded

\* after a release with has_error=True, get_connection returns a connection
C10_Witness ==
    /\ discarded # {}
    /\ \E t \in Threads : pc[t] = "gc_return" /\ current[t] \notin discarded

\* ---------------------------------------------------------- C16, C17
\* translate has been applied to tev and tmodels
TranslateDone == tres # NotRun

Present == tev.fqid \in DOMAIN tmodels
MarkedDeleted == Present /\ tmodels[tev.fqid][META_DELETED] = TRUE

\* C16: translate fails exactly when the stored state contradicts the event:
\* Create raises ModelExists iff the fqid is present (deleted or not), Update
\* and Delete raise ModelDoesNotExist iff it is absent or marked deleted,
\* Restore raises ModelNotDeleted iff it is absent or not marked deleted; in
\* every other case translate succeeds, Create with exactly one create event
\* that carries all supplied fields, Delete and Restore with exactly one event
\* that carries all field names the model has.
C16_TranslatePreconditions ==
    TranslateDone =>
        /\ tev.type = "create" =>
              /\ (tres.error = "ModelExists") <=> Present
              /\ ~Present =>
                    /\ tres.error = "none"
                    /\ Len(tres.events) = 1
                    /\ tres.events[1].type = "create"
                    /\ tres.events[1].fqid = tev.fqid
                    /\ tres.events[1].fields = tev.fields
        /\ tev.type \in {"update", "delete"} =>
              /\ (tres.error = "ModelDoesNotExist") <=> (~Present \/ MarkedDeleted)
              /\ (Present /\ ~MarkedDeleted) => tres.error = "none"
        /\ tev.type = "restore" =>
              /\ (tres.error = "ModelNotDeleted") <=> (~Present \/ ~MarkedDeleted)
              /\ MarkedDeleted => tres.error = "none"
        /\ (tev.type \in {"delete", "restore"} /\ tres.error = "none") =>
              /\ Len(tres.events) = 1
              /\ tres.events[1].type = tev.type
              /\ tres.events[1].fqid = tev.fqid
              /\ tres.events[1].fields = DOMAIN tmodels[tev.fqid]
        /\ tres.error \in TranslationErrors \cup {"none"}
        /\ tres.error # "none" => tres.events = <<>>

\* a restore of a model that is marked deleted has been translated
C16_Witness ==
    /\ TranslateDone
    /\ tev.type = "restore"
    /\ MarkedDeleted
    /\ DOMAIN tmodels[tev.fqid] = FieldNames \cup {META_DELETED}
    /\ tres.error = "none"

NonNullNames == {f \in DOMAIN tev.fields : tev.fields[f] # Null}
NullNames == {f \in DOMAIN tev.fields : tev.fields[f] = Null}
AddDelta == IF "add" \in DOMAIN tev.list_fields THEN tev.list_fields.add ELSE EmptyDict
RemoveDelta ==
    IF "remove" \in DOMAIN tev.list_fields THEN tev.list_fields.remove ELSE EmptyDict
HasListDelta == DOMAIN AddDelta # {} \/ DOMAIN RemoveDelta # {}

\* the place of a db event type in the order Update, DeleteFields, ListUpdate
Rank(type) ==
    CASE type = "update" -> 1
      [] type = "deletefields" -> 2
      [] type = "listupdate" -> 3
      [] OTHER -> 0

EventsOfType(type) == {i \in 1..Len(tres.events) : tres.events[i].type = type}

\* C17: an Update of an existing, not deleted model yields between zero and
\* three db events in the order Update, DeleteFields, ListUpdate: one Update
\* event with exactly the non-null fields iff there is one, one DeleteFields
\* event with exactly the names of the null fields iff there is one, one
\* ListUpdate event with the prior model iff the add or the remove delta is
\* not empty; when every field is null there is a DeleteFields event and no
\* Update event.
C17_UpdateEvents ==
    (TranslateDone /\ tev.type = "update" /\ Present /\ ~MarkedDeleted) =>
        /\ tres.error = "none"
        /\ Len(tres.events) \in 0..3
        /\ \A i \in 1..Len(tres.events) :
              /\ Rank(tres.events[i].type) # 0
              /\ tres.events[i].fqid = tev.fqid
        /\ \A i, j \in 1..Len(tres.events) :
              i < j => Rank(tres.events[i].type) < Rank(tres.events[j].type)
        /\ (EventsOfType("update") # {}) <=> (NonNullNames # {})
        /\ \A i \in EventsOfType("update") :
              /\ DOMAIN tres.events[i].fields = NonNullNames
              /\ \A f \in NonNullNames : tres.events[i].fields[f] = tev.fields[f]
        /\ (EventsOfType("deletefields") # {}) <=> (NullNames # {})
        /\ \A i \in EventsOfType("deletefields") :
              tres.events[i].fields = NullNames
        /\ (EventsOfType("listupdate") # {}) <=> HasListDelta
        /\ \A i \in EventsOfType("listupdate") :
              /\ tres.events[i].model = tmodels[tev.fqid]
              /\ tres.events[i].add = AddDelta
              /\ tres.events[i].remove = RemoveDelta
        /\ (DOMAIN tev.fields # {} /\ NonNullNames = {}) =>
              /\ Cardinality(EventsOfType("deletefields")) = 1
              /\ EventsOfType("update") = {}

\* an update whose fields are all null, without list deltas, has been
\* translated against a model that exists
C17_Witness ==
    /\ TranslateDone
    /\ tev.type = "update"
    /\ Present /\ ~MarkedDeleted
    /\ NullNames = FieldNames
    /\ ~HasListDelta
    /\ Len(tres.events) = 1

\* an update with non-null, null and list fields yields its three events
C17_AllThree ==
    /\ TranslateDone
    /\ tev.type = "update"
    /\ Len(tres.events) = 3

\* ---------------------------------------------------------- C18, C20
\* getconn() would hand out a connection: one is idle or may be opened
ConnectionFree == pool # <<>> \/ Cardinality(used) < MaxConn

\* the thread is parked in sync_event.wait()
Parked(t) == pc[t] = "gc_wait" /\ ~sync_event

\* every checked-out connection is the closed current connection of a thread
\* that is parked on the gate: no thread is left to set the gate
StaleHoldersStuck ==
    /\ sync_lock = NoThread
    /\ used # {}
    /\ \A c \in used :
          \E t \in Threads : current[t] = c /\ c \in closedConns /\ Parked(t)
    /\ \A t \in Threads : pc[t] \in {"idle", "gc_wait"}

\* C18: a thread whose current connection is already closed and that calls
\* get_connection gets its stale connection discarded and goes on to the
\* pool: it is never left parked on the gate with the stale connection that
\* keeps the pool exhausted, and it is not refused with BadCodingError.
C18_StaleHolderProceeds ==
    /\ ~StaleHoldersStuck
    /\ \A t \in Threads :
          pc[t] = "gc_raise_BadCodingError" => HoldsOpenConnection(t)

\* C20: whenever sync_lock is free and the gate is cleared, the pool is
\* exhausted: no connection is idle and MaxConn connections are checked out;
\* so no thread is parked on the gate while getconn() would hand out a
\* connection, and never more than MaxConn connections are checked out.
C20_GateClearedOnlyWhenExhausted ==
    /\ (sync_lock = NoThread /\ ~sync_event) =>
          (pool = <<>> /\ Cardinality(used) = MaxConn)
    /\ \A t \in Threads : (sync_lock = NoThread /\ Parked(t)) => ~ConnectionFree
    /\ Cardinality(used) <= MaxConn

\* a thread is parked on the cleared gate while the lock is free
C20_Witness ==
    /\ sync_lock = NoThread
    /\ \E t \in Threads : Parked(t)
    /\ Cardinality(used) = MaxConn

\* ---------------------------------------------------------------- C15
\* a thread without an open connection of its own waits in get_connection
\* while the gate is set and getconn() would hand out a connection
WokenWaiter ==
    /\ sync_event
    /\ ConnectionFree
    /\ \E t \in Threads : pc[t] = "gc_wait" /\ ~HoldsOpenConnection(t)

\* get_connection has got a connection for some thread
Obtained == \E t \in Threads : pc[t] = "gc_return"

\* getconn() could not open a connection: the call raises OperationalError
OpenFailed == \E t \in Threads : pc[t] = "gc_raise_OperationalError"

\* no thread is parked on the cleared gate while a connection is free
NoLostWakeup ==
    \A t \in Threads :
        (pc[t] = "gc_wait" /\ sync_lock = NoThread /\ ConnectionFree) => sync_event

\* C15 as stated: no wake-up is lost, and once a connection is free and the
\* gate is set a waiting thread is woken and some thread obtains a connection.
C15_WaiterObtains == []NoLostWakeup /\ (WokenWaiter ~> Obtained)

\* C15: no wake-up is lost, and once a connection is free and the gate is
\* set a waiting thread is woken and some thread obtains a connection, unless
\* the connection has to be opened and opening it fails, in which case the
\* woken call raises the OperationalError.
C15_WaiterObtainsOrOpenFails ==
    []NoLostWakeup /\ (WokenWaiter ~> (Obtained \/ OpenFailed))

\* a thread waits in get_connection after a connection was given back with
\* has_error=True: the gate is set, no connection is idle, one may be opened
C15_Witness ==
    /\ sync_event
    /\ discarded # {}
    /\ pool = <<>>
    /\ Cardinality(used) < MaxConn
    /\ \E t \in Threads : pc[t] = "gc_wait" /\ current[t] = NoConn

\* ------------------------------------------------ C11, C12, C13, C14, C19
\* __exit__ of the thread's context has run and is over
ExitOver(t) == cpc[t] \in {"attempt_over", "over"} /\ txn_end[t] # "none"

\* the wrapped call of the thread has ended
CallOver(t) == cpc[t] = "over"

\* C11: however the context is left once __enter__ has got a connection
\* (normal return, any exception of the body, connection already closed,
\* failing commit or rollback), when __exit__ is over the connection has
\* been given back through put_connection and the thread has no current
\* connection.
C11_ReleasedOnEveryExit ==
    \A t \in Threads :
        ExitOver(t) =>
            /\ put_end[t] # "none"
            /\ current[t] = NoConn
            /\ given[t] \notin used

\* C12: when the body raises a psycopg2.Error the caller of the context gets
\* a DatabaseError, and when raise_error is called the connection has been
\* rolled back (unless it was closed already), closed by put_connection and
\* removed from the thread.
C12_DatabaseErrorAfterRelease ==
    \A t \in Threads :
        /\ cpc[t] = "raise_error" =>
              /\ txn_end[t] \in {"rolledback", "skipped"}
              /\ put_end[t] = "closed"
              /\ current[t] = NoConn
              /\ given[t] = NoConn
        /\ (ExitOver(t) /\ IsPgError(exc[t])) => err[t] = "DatabaseError"

\* the function failed with a transient disconnection: a DatabaseError whose
\* base is an OperationalError without pgcode
TransientFailure(t) == err[t] = "DatabaseError" /\ exc[t] = "OperationalError"

\* the wrapped call ended with the DatabaseError of a lost connection
EndedTransient(t) == CallOver(t) /\ TransientFailure(t)

\* C13 as stated: a wrapped function that fails with a transient
\* disconnection on every attempt is invoked again MAX_RETRIES times after
\* its first attempt, with the delay before each of them.
C13_RetriedMaxRetriesTimes ==
    \A t \in Threads :
        EndedTransient(t) =>
            /\ attempts[t] = MAX_RETRIES + 1
            /\ sleeps[t] = MAX_RETRIES

\* C13: a wrapped function that fails with a transient disconnection on
\* every attempt is invoked MAX_RETRIES times in all, MAX_RETRIES - 1 of them
\* after the first attempt, with one delay between two consecutive attempts;
\* then the wrapper raises the error of the last attempt. A call that ends
\* without error ends with its first successful attempt, which follows only
\* failed attempts, each retried after one delay.
C13_InvokedMaxRetriesTimes ==
    \A t \in Threads :
        /\ EndedTransient(t) =>
              /\ attempts[t] = MAX_RETRIES
              /\ tries[t] = MAX_RETRIES
              /\ sleeps[t] = MAX_RETRIES - 1
        /\ (CallOver(t) /\ err[t] = "none") =>
              /\ attempts[t] = tries[t] + 1
              /\ sleeps[t] = tries[t]
              /\ tries[t] < MAX_RETRIES
        /\ attempts[t] <= MAX_RETRIES

\* a call has ended with the transient error of its last attempt
C13_Witness ==
    \E t \in Threads : EndedTransient(t) /\ attempts[t] > 1

\* the wrapped call ended with an error the wrapper does not retry, in its
\* first attempt
EndedAtOnce(t) ==
    /\ CallOver(t)
    /\ err[t] # "none"
    /\ ~TransientFailure(t)
    /\ tries[t] = 0

\* the connection of the last attempt was closed, not recycled
ConnectionClosed(t) == put_end[t] = "closed"

C19_DomainErrorRecycles ==
    \A t \in Threads :
        (ExitOver(t) /\ exc[t] = "ModelExists") =>
            /\ txn_end[t] = "rolledback"
            /\ put_end[t] = "recycled"
            /\ current[t] = NoConn
            /\ err[t] = "ModelExists"
            /\ CallOver(t) => attempts[t] = tries[t] + 1

\* ---------------------------------------------------------------- C21
\* the step opens a connection to the database (getconn() connects)
OpensConnection == nconns' # nconns

\* the step closes a checked-out connection (putconn() calls conn.close())
ClosesConnection == closedConns' # closedConns /\ used' # used

\* a thread that waits, on the gate or for sync_lock, does not hold sync_lock
WaitsWithoutLock ==
    \A t \in Threads :
        pc[t] \in {"gc_wait", "gc_lock", "pc_lock"} => sync_lock # t

\* C21: sync_lock is never held while database I/O is performed: a step that
\* opens or closes a connection is taken while no thread holds sync_lock, and
\* no thread waits on the gate or for the lock while it holds sync_lock.
C21_LockNeverHeldAcrossIO ==
    /\ []WaitsWithoutLock
    /\ [][(OpensConnection \/ ClosesConnection) => sync_lock = NoThread]_vars

====
